---- MODULE Spec2Model ----
(***************************************************************************)
(* Statement processing pipeline of fin-view-extract.                      *)
(*                                                                         *)
(* uploadPdf / processPdf (src/src/lib/api/statements.ts) as a state       *)
(* machine.  Every `await` of the source is one action: the external call  *)
(* takes effect (or reports an error) and the synchronous code up to the   *)
(* next `await` runs in the same step, as it does on the JavaScript event  *)
(* loop.  Several uploadPdf calls (browser sessions) interleave at their   *)
(* awaits.                                                                 *)
(*                                                                         *)
(* The Supabase client resolves every call to {data, error}; a failed call *)
(* leaves the store unchanged and reports an error.  processPdf ignores    *)
(* the result of its status, currency and metadata updates, so the model   *)
(* lets each of them either take effect or report an error.                *)
(***************************************************************************)
EXTENDS Integers, Sequences, FiniteSets, TLC

\* Longest transactions array the extraction returns in this model.
MaxTx == 2

\* File names given to the currency detection have at most MaxNameLen chunks.
MaxNameLen == 2

\* Amounts and balances given to the transaction map lie in -MaxAmount..MaxAmount.
MaxAmount == 2

\* Response texts of the inference service have at most MaxTextLen tokens.
MaxTextLen == 3

\* Transaction lists given to the primary-currency count have at most
\* MaxList elements.
MaxList == 3

\* The clock advances at most MaxTicks times.
MaxTicks == 2

\* expiresAt.setHours(expiresAt.getHours() + 24)
ValidityHours == 24

ValidityMs == ValidityHours * 60 * 60 * 1000

\* An optional value: <<>> is null / undefined, <<x>> is x.
Absent == <<>>

Some(x) == <<x>>

\* Concurrent uploadPdf calls: one per browser session (UploadDialog.handleUpload
\* disables the button while its call is pending).
Sessions == {"s1", "s2"}

\* user.id of the session that calls uploadPdf(file, user.id).
UserOf(s) == IF s = "s1" THEN "u1" ELSE "u2"

\* File names, as sequences of chunks; a chunk is a run of characters.
FileNames == {<<"statement", ".pdf">>, <<"SMBC", "_2024", ".pdf">>}

\* Chunks written in Japanese script (the character classes of the regular
\* expression of processPdf), and the bank names it looks for.
JapaneseScriptChunks == {"meisai-kanji", "mitsui-sumitomo-kanji", "mizuho-kana"}

JapaneseBankChunks == {"SMBC", "mitsui-sumitomo-kanji", "mizuho-kana", "Mizuho", "MUFG"}

\* What a call to the database or to storage resolves to.
DbOutcomes == {"ok", "error"}

----------------------------------------------------------------------------
(* Extraction results *)

RawDebit ==
    [date |-> "2023-04-15", description |-> "UBER EATS", amount |-> -25,
     category |-> Some("Eating Out"), balance |-> Some(2124)]

RawCredit ==
    [date |-> "2023-04-16", description |-> "REFUND", amount |-> 0,
     category |-> Absent, balance |-> Some(0)]

\* A null element of the transactions array.
NullElem == [null |-> TRUE]

IsNullElem(t) == "null" \in DOMAIN t

\* The k-th line of the statement the model reads.
StatementLine(k) == IF k % 2 = 1 THEN RawDebit ELSE RawCredit

\* The transactions arrays the model returns: the first k lines of the
\* statement, or those with the last one returned as null.
ValidArrays == {[i \in 1..k |-> StatementLine(i)] : k \in 0..MaxTx}

BrokenArrays ==
    {[i \in 1..k |-> IF i = k THEN NullElem ELSE StatementLine(i)] : k \in 1..MaxTx}

TransactionArrays == ValidArrays \cup BrokenArrays

Summaries ==
    {[currency |-> Absent, totalBillAmount |-> Absent],
     [currency |-> Some("EUR"), totalBillAmount |-> Some(5000)]}

\* What processPdfWithGemini does: it throws (service error, no text, no JSON),
\* or returns whatever JSON.parse gave: null, a value without a transactions
\* array, or {summary, transactions}.
ExtractionResults ==
    {[kind |-> "throw"], [kind |-> "null"], [kind |-> "noArray"]}
    \cup {[kind |-> "data", summary |-> sm, transactions |-> ts] :
            sm \in Summaries, ts \in TransactionArrays}

NoData == [kind |-> "none"]

----------------------------------------------------------------------------
(* Pure parts of processPdf *)

Contains(name, chunks) == \E i \in 1..Len(name) : name[i] \in chunks

IsJapaneseName(name) ==
    Contains(name, JapaneseScriptChunks) \/ Contains(name, JapaneseBankChunks)

\* Mutant: the summary's currency wins over the file-name override.
SummaryBeforeFileName(summary, name) ==
    IF summary.currency # Absent /\ summary.currency # Some("")
    THEN summary.currency[1]
    ELSE IF IsJapaneseName(name) THEN "JPY" ELSE "USD"

\* let detectedCurrency = summary?.currency || "USD"; then the file-name override.
DetectCurrency(summary, name) ==
    IF IsJapaneseName(name) THEN "JPY"
    ELSE IF summary.currency # Absent /\ summary.currency # Some("")
         THEN summary.currency[1]
         ELSE "USD"

\* transaction.category || null
OrNullStr(v) == IF v = Absent \/ v = Some("") THEN Absent ELSE v

\* transaction.balance || null
OrNullNum(v) == IF v = Absent \/ v = Some(0) THEN Absent ELSE v

\* Mutant: an amount of zero is a debit.
TypeOfZeroDebit(amount) == IF amount <= 0 THEN "debit" ELSE "credit"

\* type: transaction.amount < 0 ? "debit" : "credit"
TypeOf(amount) == IF amount < 0 THEN "debit" ELSE "credit"

FormatTransaction(t, statementId, userId, detectedCurrency) ==
    [statement_id |-> statementId,
     user_id |-> userId,
     transaction_date |-> t.date,
     description |-> t.description,
     amount |-> t.amount,
     type |-> TypeOf(t.amount),
     category |-> OrNullStr(t.category),
     balance |-> OrNullNum(t.balance),
     currency |-> Some(detectedCurrency)]

FormatTransactions(ts, statementId, userId, detectedCurrency) ==
    [i \in 1..Len(ts) |-> FormatTransaction(ts[i], statementId, userId, detectedCurrency)]

\* transactions.map(...) reads a property of every element: a null element throws.
MapThrows(ts) == \E i \in 1..Len(ts) : IsNullElem(ts[i])

\* detectedCurrency === "JPY" && summary?.totalBillAmount
HasBill(summary, detectedCurrency) ==
    /\ detectedCurrency = "JPY"
    /\ summary.totalBillAmount # Absent
    /\ summary.totalBillAmount # Some(0)

----------------------------------------------------------------------------
(* State *)

VARIABLES
    storage,        \* paths of the objects in the "statements" bucket
    statements,     \* the statements table: row i has id i
    transactions,   \* the transactions table, in insertion order
    pc,             \* where each uploadPdf call is
    file,           \* the name of the file each call uploads
    statementId,    \* the id the statement insert returned to the call
    extractedData,  \* what processPdfWithGemini returned to the call
    result,         \* what uploadPdf returned
    failedAt,       \* history: where the call's pipeline run threw
    writes,         \* history: the outcome of each external write of the call
    deletedIds,     \* ids of the statement rows that have been deleted
    dpc,            \* where each deleteStatement call is
    dArgs,          \* (statementId, userId) of each deleteStatement call
    dPath,          \* statement.storage_path the call fetched
    dResult,        \* what deleteStatement returned
    dLog,           \* history: the outcome of each external call of the call
    insights,       \* the insights table, in insertion order
    clock,          \* the time new Date() reads, in milliseconds
    ticks,          \* how often the clock has advanced
    gpc,            \* where each generateAndStoreInsights call is
    gArgs,          \* userId of each generateAndStoreInsights call
    gTimes,         \* the two clock reads of the call's storeInsights
    gCurrency,      \* primaryCurrency of each generateAndStoreInsights call
    gResult,        \* what generateAndStoreInsights returned
    gLog,           \* history: the outcome of each external call of the call
    lastRead,       \* the last getCachedInsights call: its input and result
    vpc,            \* where the insights view's fetchData is
    view,           \* what the insights view has read and what it shows
    pureIn,         \* the input of the pure function under check
    pureOut         \* its output

uploadVars == <<pc, file, statementId, extractedData, result, failedAt, writes>>

deleteVars == <<deletedIds, dpc, dArgs, dPath, dResult, dLog>>

insightVars ==
    <<insights, clock, ticks, gpc, gArgs, gTimes, gCurrency, gResult, gLog,
      lastRead>>

pureVars == <<pureIn, pureOut>>

viewVars == <<vpc, view>>

\* What uploadPdf and processPdf never touch.
otherVars == <<deleteVars, insightVars, pureVars, viewVars>>

vars == <<storage, statements, transactions, uploadVars, deleteVars,
          insightVars, pureVars, viewVars>>

NoFile == <<>>

WriteNames ==
    {"upload", "insertStatement", "remove", "processing", "currency", "bill",
     "insertTransactions", "processed", "error"}

NoResult == [data |-> Absent, error |-> Absent, returned |-> FALSE]

\* filePath = `statements/${userId}/${Date.now()}_${encodedFileName}`: one path
\* per call.
FilePath(s) == <<"statements", UserOf(s), s, file[s]>>

\* Concurrent deleteStatement calls (the delete buttons of the statement lists
\* of two open pages).
DeleteCalls == {"d1", "d2"}

\* Concurrent generateAndStoreInsights calls (the page's and the component's
\* "Generate Insights" buttons).
InsightCalls == {"g1", "g2"}

Users == {"u1", "u2"}

DeleteCallNames == {"fetch", "deleteTransactions", "deleteStatement", "remove"}

InsightCallNames == {"generate", "delete", "insert"}

NoArgs == [statementId |-> 0, userId |-> "none"]

NoDeleteResult == [success |-> FALSE, error |-> Absent, returned |-> FALSE]

NoInsightResult == [data |-> Absent, error |-> Absent, returned |-> FALSE]

NoTimes == [expiresAt |-> 0, generatedAt |-> 0]

NoRead ==
    [userId |-> "none", now |-> 0, query |-> "none", data |-> Absent,
     error |-> Absent]

NoPure == [kind |-> "none"]

NoView ==
    [userId |-> "none", now |-> 0, transactions |-> "none", cache |-> "none",
     insights |-> Absent, cachedTime |-> Absent, error |-> Absent]

InitStore ==
    /\ storage = {}
    /\ statements = <<>>
    /\ transactions = <<>>
    /\ deletedIds = {}
    /\ insights = <<>>
    /\ clock = 0
    /\ ticks = 0

InitUpload ==
    /\ pc = [s \in Sessions |-> "start"]
    /\ file = [s \in Sessions |-> NoFile]
    /\ statementId = [s \in Sessions |-> 0]
    /\ extractedData = [s \in Sessions |-> NoData]
    /\ result = [s \in Sessions |-> NoResult]
    /\ failedAt = [s \in Sessions |-> "none"]
    /\ writes = [s \in Sessions |-> [w \in WriteNames |-> "none"]]

InitDelete ==
    /\ dpc = [d \in DeleteCalls |-> "start"]
    /\ dArgs = [d \in DeleteCalls |-> NoArgs]
    /\ dPath = [d \in DeleteCalls |-> Absent]
    /\ dResult = [d \in DeleteCalls |-> NoDeleteResult]
    /\ dLog = [d \in DeleteCalls |-> [c \in DeleteCallNames |-> "none"]]

InitInsights ==
    /\ gpc = [g \in InsightCalls |-> "start"]
    /\ gArgs = [g \in InsightCalls |-> "none"]
    /\ gTimes = [g \in InsightCalls |-> NoTimes]
    /\ gCurrency = [g \in InsightCalls |-> "USD"]
    /\ gResult = [g \in InsightCalls |-> NoInsightResult]
    /\ gLog = [g \in InsightCalls |-> [c \in InsightCallNames |-> "none"]]
    /\ lastRead = NoRead

InitPure ==
    /\ pureIn = NoPure
    /\ pureOut = NoPure

InitViewer ==
    /\ vpc = "start"
    /\ view = NoView

Init ==
    /\ InitStore
    /\ InitUpload
    /\ InitDelete
    /\ InitInsights
    /\ InitPure
    /\ InitViewer

----------------------------------------------------------------------------
(* Helpers of the actions *)

\* The statement row with this id exists (it was inserted and not deleted).
Exists(id) == id \in DOMAIN statements /\ id \notin deletedIds

\* .update(fields).eq("id", id): the row with that id, when there is one.
UpdateStatus(id, status) ==
    [i \in DOMAIN statements |->
        IF statements[i].id = id /\ Exists(i)
        THEN [statements[i] EXCEPT !.processing_status = status]
        ELSE statements[i]]

UpdateCurrency(id, currency) ==
    [i \in DOMAIN statements |->
        IF statements[i].id = id /\ Exists(i)
        THEN [statements[i] EXCEPT !.currency = Some(currency)]
        ELSE statements[i]]

UpdateBill(id, currency, bill) ==
    [i \in DOMAIN statements |->
        IF statements[i].id = id /\ Exists(i)
        THEN [statements[i] EXCEPT
                !.currency = Some(currency),
                !.metadata = Some([total_bill_amount |-> bill,
                                   statement_type |-> "credit_card"])]
        ELSE statements[i]]

\* The row uploadPdf inserts; the database gives it its id.
NewStatement(s, id) ==
    [id |-> id,
     user_id |-> UserOf(s),
     file_name |-> file[s],
     storage_path |-> FilePath(s),
     processing_status |-> "uploaded",
     currency |-> Absent,
     metadata |-> Absent]

\* The id the database gives a new statement row (uuid_generate_v4: fresh).
FreshId == Len(statements) + 1

\* Mutant: the run is started on the first statement's id, not on the new row's.
StaleStatementId(row) == 1

\* const statementId = statementData.id
RunStatementId(row) == row.id

\* Mutant: the transactions.map(...) call placed outside the try block.
TryBodyWithoutMap ==
    {"setProcessing", "extract", "validate", "setCurrency", "setBill",
     "insertTransactions", "setProcessed"}

\* The statements of processPdf that lie inside its try block.
TryBody ==
    {"setProcessing", "extract", "validate", "setCurrency", "normalize",
     "setBill", "insertTransactions", "setProcessed"}

\* Where control goes when the statement at `site` throws: to the catch
\* handler of processPdf, or out of processPdf and uploadPdf.
Raise(site) == IF site \in TryBody THEN "setError" ELSE "rejected"

\* Mutant: the insert's error is not looked at.
InsertErrorIgnored(outcome) == FALSE

\* if (insertError) throw insertError
InsertFailed(outcome) == outcome = "error"

Record(s, w, outcome) == [writes EXCEPT ![s][w] = outcome]

\* return { data: statementData as Statement, error: null }
Returned(s) ==
    [data |-> Some(NewStatement(s, statementId[s])), error |-> Absent,
     returned |-> TRUE]

ReturnedError(e) == [data |-> Absent, error |-> Some(e), returned |-> TRUE]

----------------------------------------------------------------------------
(* uploadPdf *)

\* supabase.storage.from("statements").upload(filePath, file, {upsert: false});
\* on an error uploadPdf returns it.
UploadFile(s) ==
    /\ pc[s] = "start"
    /\ \E name \in FileNames, o \in DbOutcomes :
        /\ file' = [file EXCEPT ![s] = name]
        /\ writes' = Record(s, "upload", o)
        /\ IF o = "ok"
           THEN /\ storage' = storage \cup {<<"statements", UserOf(s), s, name>>}
                /\ pc' = [pc EXCEPT ![s] = "insertStatement"]
                /\ result' = result
           ELSE /\ storage' = storage
                /\ pc' = [pc EXCEPT ![s] = "returned"]
                /\ result' = [result EXCEPT ![s] = ReturnedError("StorageError")]
    /\ UNCHANGED <<statements, transactions, statementId, extractedData, failedAt>>
    /\ UNCHANGED otherVars

\* supabase.from("statements").insert({... processing_status: "uploaded"})
\*   .select().single(); on success uploadPdf calls processPdf, which runs to
\* its first await.
InsertStatement(s) ==
    /\ pc[s] = "insertStatement"
    /\ \E o \in DbOutcomes :
        /\ writes' = Record(s, "insertStatement", o)
        /\ IF o = "ok"
           THEN /\ statements' = Append(statements, NewStatement(s, FreshId))
                /\ statementId' =
                     [statementId EXCEPT ![s] = RunStatementId(NewStatement(s, FreshId))]
                /\ pc' = [pc EXCEPT ![s] = "setProcessing"]
           ELSE /\ statements' = statements
                /\ statementId' = statementId
                /\ pc' = [pc EXCEPT ![s] = "removeFile"]
    /\ UNCHANGED <<storage, transactions, file, extractedData, result, failedAt>>
    /\ UNCHANGED otherVars

\* await supabase.storage.from("statements").remove([filePath]);
\* return { data: null, error: statementError }
RemoveFile(s) ==
    /\ pc[s] = "removeFile"
    /\ \E o \in DbOutcomes :
        /\ writes' = Record(s, "remove", o)
        /\ storage' = IF o = "ok" THEN storage \ {FilePath(s)} ELSE storage
    /\ pc' = [pc EXCEPT ![s] = "returned"]
    /\ result' = [result EXCEPT ![s] = ReturnedError("PostgrestError")]
    /\ UNCHANGED <<statements, transactions, file, statementId, extractedData, failedAt>>
    /\ UNCHANGED otherVars

----------------------------------------------------------------------------
(* processPdf *)

\* await ...update({ processing_status: "processing" }).eq("id", statementId);
\* then getPublicUrl and the call of processPdfWithGemini.
SetProcessing(s) ==
    /\ pc[s] = "setProcessing"
    /\ \E o \in DbOutcomes :
        /\ writes' = Record(s, "processing", o)
        /\ statements' = IF o = "ok" THEN UpdateStatus(statementId[s], "processing")
                         ELSE statements
    /\ pc' = [pc EXCEPT ![s] = "extract"]
    /\ UNCHANGED <<storage, transactions, file, statementId, extractedData, result, failedAt>>
    /\ UNCHANGED otherVars

\* extractedData = await processPdfWithGemini(file), the two checks of its
\* shape, the currency detection, and the issue of the currency update.
Extract(s) ==
    /\ pc[s] = "extract"
    /\ \E r \in ExtractionResults :
        /\ extractedData' = [extractedData EXCEPT ![s] = r]
        /\ IF r.kind = "throw"
           THEN /\ pc' = [pc EXCEPT ![s] = Raise("extract")]
                /\ failedAt' = [failedAt EXCEPT ![s] = "extract"]
           ELSE IF r.kind # "data"
           THEN /\ pc' = [pc EXCEPT ![s] = Raise("validate")]
                /\ failedAt' = [failedAt EXCEPT ![s] = "validate"]
           ELSE /\ pc' = [pc EXCEPT ![s] = "setCurrency"]
                /\ failedAt' = failedAt
    /\ UNCHANGED <<storage, statements, transactions, file, statementId, result, writes>>
    /\ UNCHANGED otherVars

Detected(s) == DetectCurrency(extractedData[s].summary, file[s])

Formatted(s) ==
    FormatTransactions(extractedData[s].transactions, statementId[s], UserOf(s),
                       Detected(s))

\* await ...update({ currency: detectedCurrency }).eq("id", statementId); then
\* transactions.map(...) and the test for the total bill amount.
SetCurrency(s) ==
    /\ pc[s] = "setCurrency"
    /\ \E o \in DbOutcomes :
        /\ writes' = Record(s, "currency", o)
        /\ statements' = IF o = "ok" THEN UpdateCurrency(statementId[s], Detected(s))
                         ELSE statements
    /\ IF MapThrows(extractedData[s].transactions)
       THEN /\ pc' = [pc EXCEPT ![s] = Raise("normalize")]
            /\ failedAt' = [failedAt EXCEPT ![s] = "normalize"]
       ELSE /\ pc' = [pc EXCEPT ![s] =
                        IF HasBill(extractedData[s].summary, Detected(s))
                        THEN "setBill" ELSE "insertTransactions"]
            /\ failedAt' = failedAt
    /\ UNCHANGED <<storage, transactions, file, statementId, extractedData, result>>
    /\ UNCHANGED otherVars

\* await ...update({ currency, metadata: { total_bill_amount, statement_type } })
SetBill(s) ==
    /\ pc[s] = "setBill"
    /\ \E o \in DbOutcomes :
        /\ writes' = Record(s, "bill", o)
        /\ statements' =
             IF o = "ok"
             THEN UpdateBill(statementId[s], Detected(s),
                             extractedData[s].summary.totalBillAmount[1])
             ELSE statements
    /\ pc' = [pc EXCEPT ![s] = "insertTransactions"]
    /\ UNCHANGED <<storage, transactions, file, statementId, extractedData, result, failedAt>>
    /\ UNCHANGED otherVars

\* const { error: insertError } = await supabase.from("transactions")
\*   .insert(formattedTransactions); if (insertError) throw insertError
InsertTransactions(s) ==
    /\ pc[s] = "insertTransactions"
    /\ \E o \in DbOutcomes :
        \* transactions_statement_id_fkey: no row for a statement that is gone
        /\ (o = "ok" /\ Len(Formatted(s)) > 0) => Exists(statementId[s])
        /\ writes' = Record(s, "insertTransactions", o)
        /\ transactions' = IF o = "ok" THEN transactions \o Formatted(s)
                           ELSE transactions
        /\ IF InsertFailed(o)
           THEN /\ pc' = [pc EXCEPT ![s] = Raise("insertTransactions")]
                /\ failedAt' = [failedAt EXCEPT ![s] = "insertTransactions"]
           ELSE /\ pc' = [pc EXCEPT ![s] = "setProcessed"]
                /\ failedAt' = failedAt
    /\ UNCHANGED <<storage, statements, file, statementId, extractedData, result>>
    /\ UNCHANGED otherVars

\* await ...update({ processing_status: "processed" }).eq("id", statementId);
\* processPdf returns and uploadPdf returns { data: statementData, error: null }.
SetProcessed(s) ==
    /\ pc[s] = "setProcessed"
    /\ \E o \in DbOutcomes :
        /\ writes' = Record(s, "processed", o)
        /\ statements' = IF o = "ok" THEN UpdateStatus(statementId[s], "processed")
                         ELSE statements
    /\ pc' = [pc EXCEPT ![s] = "returned"]
    /\ result' = [result EXCEPT ![s] = Returned(s)]
    /\ UNCHANGED <<storage, transactions, file, statementId, extractedData, failedAt>>
    /\ UNCHANGED otherVars

\* catch (error): await ...update({ processing_status: "error" })
\*   .eq("id", statementId); processPdf returns and uploadPdf returns.
SetError(s) ==
    /\ pc[s] = "setError"
    /\ \E o \in DbOutcomes :
        /\ writes' = Record(s, "error", o)
        /\ statements' = IF o = "ok" THEN UpdateStatus(statementId[s], "error")
                         ELSE statements
    /\ pc' = [pc EXCEPT ![s] = "returned"]
    /\ result' = [result EXCEPT ![s] = Returned(s)]
    /\ UNCHANGED <<storage, transactions, file, statementId, extractedData, failedAt>>
    /\ UNCHANGED otherVars

\* One step of the uploadPdf call of session s.
UploadStep(s) ==
    \/ UploadFile(s)
    \/ InsertStatement(s)
    \/ RemoveFile(s)
    \/ SetProcessing(s)
    \/ Extract(s)
    \/ SetCurrency(s)
    \/ SetBill(s)
    \/ InsertTransactions(s)
    \/ SetProcessed(s)
    \/ SetError(s)

Next == \E s \in Sessions : UploadStep(s)

Spec == Init /\ [][Next]_vars

----------------------------------------------------------------------------
(* deleteStatement *)

\* Mutant: the fetch is not restricted to the caller's rows.
FetchRowOfAnyUser(id, userId) ==
    IF Exists(id) THEN Some(statements[id]) ELSE Absent

\* .from("statements").select("storage_path").eq("id", statementId)
\*   .eq("user_id", userId).single()
FetchRow(id, userId) ==
    IF Exists(id) /\ statements[id].user_id = userId
    THEN Some(statements[id])
    ELSE Absent

\* if (fetchError || !statement): single() reports an error for no row.
FetchFailed(outcome, row) == outcome = "error" \/ row = Absent

\* if (transactionDeleteError)
TransactionDeleteFailed(outcome) == outcome = "error"

\* if (statementDeleteError)
StatementDeleteFailed(outcome) == outcome = "error"

DeleteRecord(d, c, outcome) == [dLog EXCEPT ![d][c] = outcome]

DeleteFailure(e) == [success |-> FALSE, error |-> Some(e), returned |-> TRUE]

DeleteSuccess == [success |-> TRUE, error |-> Absent, returned |-> TRUE]

\* The rows .delete().eq("statement_id", id).eq("user_id", userId) leaves.
WithoutTransactionsOf(id, userId) ==
    SelectSeq(transactions, LAMBDA r : ~(r.statement_id = id /\ r.user_id = userId))

\* Mutant: the rows that refer to a deleted statement stay.
KeepReferencesTo(id) == transactions

\* The rows left when statement id goes (transactions_statement_id_fkey).
WithoutReferencesTo(id) ==
    SelectSeq(transactions, LAMBDA r : r.statement_id # id)

\* Step 1: the call of deleteStatement(statementId, userId) on an id the
\* statement list has shown, and the fetch of its storage path.
DeleteFetch(d) ==
    /\ dpc[d] = "start"
    /\ \E id \in DOMAIN statements, u \in Users, o \in DbOutcomes :
        /\ dArgs' = [dArgs EXCEPT ![d] = [statementId |-> id, userId |-> u]]
        /\ dLog' = DeleteRecord(d, "fetch", o)
        /\ IF FetchFailed(o, FetchRow(id, u))
           THEN /\ dpc' = [dpc EXCEPT ![d] = "returned"]
                /\ dResult' = [dResult EXCEPT ![d] =
                     DeleteFailure(IF o = "error" THEN "PostgrestError"
                                   ELSE "PGRST116")]
                /\ dPath' = dPath
           ELSE /\ dpc' = [dpc EXCEPT ![d] = "deleteTransactions"]
                /\ dResult' = dResult
                /\ dPath' = [dPath EXCEPT ![d] = Some(FetchRow(id, u)[1].storage_path)]
    /\ UNCHANGED <<storage, statements, transactions, deletedIds>>
    /\ UNCHANGED <<uploadVars, insightVars, pureVars, viewVars>>

\* Step 2: delete the statement's transactions.
DeleteTransactions(d) ==
    /\ dpc[d] = "deleteTransactions"
    /\ \E o \in DbOutcomes :
        /\ dLog' = DeleteRecord(d, "deleteTransactions", o)
        /\ transactions' =
             IF o = "ok"
             THEN WithoutTransactionsOf(dArgs[d].statementId, dArgs[d].userId)
             ELSE transactions
        /\ IF TransactionDeleteFailed(o)
           THEN /\ dpc' = [dpc EXCEPT ![d] = "returned"]
                /\ dResult' = [dResult EXCEPT ![d] = DeleteFailure("PostgrestError")]
           ELSE /\ dpc' = [dpc EXCEPT ![d] = "deleteStatement"]
                /\ dResult' = dResult
    /\ UNCHANGED <<storage, statements, deletedIds, dArgs, dPath>>
    /\ UNCHANGED <<uploadVars, insightVars, pureVars, viewVars>>

\* Step 3: delete the statement row; rows that still refer to it go with it.
DeleteStatementRow(d) ==
    /\ dpc[d] = "deleteStatement"
    /\ \E o \in DbOutcomes :
        /\ dLog' = DeleteRecord(d, "deleteStatement", o)
        /\ IF o = "ok" /\ FetchRow(dArgs[d].statementId, dArgs[d].userId) # Absent
           THEN /\ deletedIds' = deletedIds \cup {dArgs[d].statementId}
                /\ transactions' = WithoutReferencesTo(dArgs[d].statementId)
           ELSE /\ deletedIds' = deletedIds
                /\ transactions' = transactions
        /\ IF StatementDeleteFailed(o)
           THEN /\ dpc' = [dpc EXCEPT ![d] = "returned"]
                /\ dResult' = [dResult EXCEPT ![d] = DeleteFailure("PostgrestError")]
           ELSE /\ dpc' = [dpc EXCEPT ![d] = "removeFile"]
                /\ dResult' = dResult
    /\ UNCHANGED <<storage, statements, dArgs, dPath>>
    /\ UNCHANGED <<uploadVars, insightVars, pureVars, viewVars>>

\* Step 4: remove the file; a failure is logged and success is returned.
DeleteRemove(d) ==
    /\ dpc[d] = "removeFile"
    /\ \E o \in DbOutcomes :
        /\ dLog' = DeleteRecord(d, "remove", o)
        /\ storage' = IF o = "ok" THEN storage \ {dPath[d][1]} ELSE storage
    /\ dpc' = [dpc EXCEPT ![d] = "returned"]
    /\ dResult' = [dResult EXCEPT ![d] = DeleteSuccess]
    /\ UNCHANGED <<statements, transactions, deletedIds, dArgs, dPath>>
    /\ UNCHANGED <<uploadVars, insightVars, pureVars, viewVars>>

DeleteStep(d) ==
    \/ DeleteFetch(d)
    \/ DeleteTransactions(d)
    \/ DeleteStatementRow(d)
    \/ DeleteRemove(d)

\* One upload, with its pipeline run, and the deleteStatement calls.
NextDelete ==
    \/ UploadStep("s1")
    \/ \E d \in DeleteCalls : DeleteStep(d)

SpecDelete == Init /\ [][NextDelete]_vars

----------------------------------------------------------------------------
(* Properties *)

HasStatement(s) == statementId[s] # 0

StatusOf(s) == statements[statementId[s]].processing_status

\* The rows of the transactions table that belong to statement id.
RowsOf(id) == SelectSeq(transactions, LAMBDA r : r.statement_id = id)

\* processPdf has been entered by the call / has returned to it.
RunStarted(s) == writes[s]["processing"] # "none"

RunFinished(s) == RunStarted(s) /\ pc[s] = "returned"

RunActive(s) ==
    pc[s] \in {"setProcessing", "extract", "setCurrency", "setBill",
               "insertTransactions", "setProcessed", "setError"}

\* C1: a statement row is created with status 'uploaded', and every later
\* change of its status is uploaded->processing, processing->processed or
\* processing->error, whatever the outcome of the individual database writes.
C1_StatusTransitions ==
    [][\A i \in DOMAIN statements' :
          IF i \in DOMAIN statements
          THEN \/ statements'[i].processing_status = statements[i].processing_status
               \/ <<statements[i].processing_status,
                    statements'[i].processing_status>> \in
                    {<<"uploaded", "processing">>, <<"processing", "processed">>,
                     <<"processing", "error">>}
          ELSE statements'[i].processing_status = "uploaded"]_vars

C3_FailureEndsInError ==
    \A s \in Sessions :
        (RunFinished(s) /\ failedAt[s] # "none") =>
            /\ statementId[s] \in DOMAIN statements
            /\ StatusOf(s) = "error"

\* C4: no exception escapes processPdf: whatever step fails, also when the
\* write of the 'error' status itself fails, processPdf returns and uploadPdf
\* returns its result object with the inserted row and no error.
C4_NoExceptionEscapes ==
    \A s \in Sessions :
        /\ pc[s] # "rejected"
        /\ (pc[s] = "returned" /\ writes[s]["insertStatement"] = "ok") =>
              /\ result[s].returned
              /\ result[s].error = Absent
              /\ result[s].data = Some(NewStatement(s, statementId[s]))

C4_Witness ==
    \E s \in Sessions :
        /\ pc[s] = "returned"
        /\ failedAt[s] = "normalize"
        /\ writes[s]["error"] = "error"
        /\ result[s].returned
        /\ result[s].error = Absent

\* C5: no finished pipeline run leaves its statement 'uploaded' or
\* 'processing': the status is 'processed' or 'error', also when a
\* status-update write reports an error.
C5_FinishedRunIsTerminal ==
    \A s \in Sessions :
        RunFinished(s) => StatusOf(s) \in {"processed", "error"}

\* C6: after a successful upload and a run whose extraction returned N valid
\* transactions (which the database accepted), the statement is 'processed'
\* and has exactly N rows, each with its statement_id, the uploading user's
\* user_id and the inferred currency.
C6_EndToEnd ==
    \A s \in Sessions :
        (/\ RunFinished(s)
         /\ extractedData[s].kind = "data"
         /\ extractedData[s].transactions \in ValidArrays
         /\ writes[s]["insertTransactions"] = "ok") =>
            /\ StatusOf(s) = "processed"
            /\ Len(RowsOf(statementId[s])) = Len(extractedData[s].transactions)
            /\ \A i \in 1..Len(RowsOf(statementId[s])) :
                  /\ RowsOf(statementId[s])[i].user_id = UserOf(s)
                  /\ RowsOf(statementId[s])[i].currency = Some(Detected(s))

\* C7: when the extraction call of a run fails with a service error, the
\* statement's status becomes 'error' and it has no transaction row.
C7_ExtractionErrorEndsInError ==
    \A s \in Sessions :
        (RunFinished(s) /\ extractedData[s].kind = "throw") =>
            /\ StatusOf(s) = "error"
            /\ RowsOf(statementId[s]) = <<>>

\* C8: no two pipeline runs ever work on the same statement id, so no
\* statement is entered into 'processing' twice and no statement's
\* transactions are inserted twice.
C8_OneRunPerStatement ==
    /\ \A s1, s2 \in Sessions :
          (s1 # s2 /\ RunStarted(s1) /\ RunStarted(s2)) =>
              statementId[s1] # statementId[s2]
    /\ \A i \in DOMAIN statements :
          Cardinality({s \in Sessions :
                         /\ statementId[s] = i
                         /\ writes[s]["insertTransactions"] = "ok"}) <= 1

C8_Witness ==
    \E s1, s2 \in Sessions :
        /\ s1 # s2
        /\ RunActive(s1)
        /\ RunActive(s2)
        /\ writes[s1]["processing"] = "ok"
        /\ writes[s2]["processing"] = "ok"
        /\ StatusOf(s1) = "processing"
        /\ StatusOf(s2) = "processing"

\* C9: a statement in 'error' can be retried: some operation of the program
\* runs the pipeline on it again and moves its status back to 'processing'.
C9_ErrorIsRetryable ==
    \A i \in DOMAIN statements :
        statements[i].processing_status = "error" =>
            ENABLED (Next /\ statements'[i].processing_status = "processing")

\* C10: an uploadPdf call that returned an error left nothing behind: no
\* statement row, no pipeline run, no extraction call, and no stored
\* document.
C10_FailedUploadLeavesNothing ==
    \A s \in Sessions :
        (result[s].returned /\ result[s].error # Absent) =>
            /\ ~HasStatement(s)
            /\ \A i \in DOMAIN statements : statements[i].storage_path # FilePath(s)
            /\ ~RunStarted(s)
            /\ extractedData[s] = NoData
            /\ FilePath(s) \notin storage

----------------------------------------------------------------------------
(* Properties of deleteStatement *)

\* The target of call d is absent, or is another user's statement.
TargetMissing(d) ==
    \/ dArgs[d].statementId \in deletedIds
    \/ statements[dArgs[d].statementId].user_id # dArgs[d].userId

\* C11: after deleteStatement(statementId, userId) reports success, the
\* statement row, every transaction row with that statement_id and the
\* stored document at the statement's storage_path no longer exist.
C11_SuccessRemovesEverything ==
    \A d \in DeleteCalls :
        (dResult[d].returned /\ dResult[d].success) =>
            /\ dArgs[d].statementId \in deletedIds
            /\ RowsOf(dArgs[d].statementId) = <<>>
            /\ dPath[d][1] \notin storage

\* C12: a deleteStatement whose id was already deleted, or is not owned by
\* the given user, returns success=false with a non-null error and changes
\* no statement, transaction or stored document.
C12_MissingTargetIsNoOpFailure ==
    [][\A d \in DeleteCalls :
         (dpc[d] = "start" /\ dpc'[d] # "start" /\ TargetMissing(d)')
         => /\ dResult'[d].returned
            /\ ~dResult'[d].success
            /\ dResult'[d].error # Absent
            /\ statements' = statements
            /\ deletedIds' = deletedIds
            /\ transactions' = transactions
            /\ storage' = storage]_vars

\* A second delete of an id its owner has already deleted has failed on a
\* fetch that the database answered.
C12_Witness ==
    \E d \in DeleteCalls :
        /\ dResult[d].returned
        /\ ~dResult[d].success
        /\ dLog[d]["fetch"] = "ok"
        /\ dArgs[d].statementId \in deletedIds
        /\ statements[dArgs[d].statementId].user_id = dArgs[d].userId

----------------------------------------------------------------------------
(* The currency detection and the transaction map, applied to any input *)

\* Response texts, as sequences of tokens: braces, brackets, the JSON
\* literals null and 1, and a word of prose.
TextTokens == {"{", "}", "[", "]", "null", "1", "prose"}

Texts == UNION {[1..n -> TextTokens] : n \in 0..MaxTextLen}

SubText(text, i, j) == [k \in 1..(j - i + 1) |-> text[i + k - 1]]

\* JSON.parse succeeds on: null, 1, {}, [], and an array of one such value.
RECURSIVE IsJson(_)
IsJson(text) ==
    \/ Len(text) = 1 /\ text[1] \in {"null", "1"}
    \/ text = <<"{", "}">>
    \/ text = <<"[", "]">>
    \/ /\ Len(text) >= 3
       /\ text[1] = "["
       /\ text[Len(text)] = "]"
       /\ IsJson(SubText(text, 2, Len(text) - 1))

\* What JSON.parse returns for a text it accepts.
JsonValue(text) ==
    IF text = <<"null">> THEN "null"
    ELSE IF text = <<"1">> THEN "number"
    ELSE IF text[1] = "{" THEN "object"
    ELSE "array"

Positions(text, token) == {i \in 1..Len(text) : text[i] = token}

Least(S) == CHOOSE i \in S : \A j \in S : i <= j

Greatest(S) == CHOOSE i \in S : \A j \in S : j <= i

\* generatedText.match(/\{[\s\S]*\}/): from the first "{" to the last "}".
HasJsonMatch(text) ==
    /\ Positions(text, "{") # {}
    /\ \E j \in Positions(text, "}") : j > Least(Positions(text, "{"))

JsonMatch(text) ==
    SubText(text, Least(Positions(text, "{")), Greatest(Positions(text, "}")))

\* generateSpendingInsights from the generated text on: no text throws; the
\* match is parsed; without a match "Failed to extract insights data from
\* response" is thrown.
ParseInsights(text) ==
    IF Len(text) = 0 THEN [kind |-> "throw", error |-> "NoText"]
    ELSE IF HasJsonMatch(text)
    THEN IF IsJson(JsonMatch(text))
         THEN [kind |-> "value", value |-> JsonValue(JsonMatch(text))]
         ELSE [kind |-> "throw", error |-> "SyntaxError"]
    ELSE [kind |-> "throw", error |-> "FormatError"]

\* processPdfWithGemini from the generated text on: no text throws; the
\* match is parsed; without a match the whole text is parsed, and only if
\* that fails "Failed to extract transaction data from response" is thrown.
ParseExtraction(text) ==
    IF Len(text) = 0 THEN [kind |-> "throw", error |-> "NoText"]
    ELSE IF HasJsonMatch(text)
    THEN IF IsJson(JsonMatch(text))
         THEN [kind |-> "value", value |-> JsonValue(JsonMatch(text))]
         ELSE [kind |-> "throw", error |-> "SyntaxError"]
    ELSE IF IsJson(text)
    THEN [kind |-> "value", value |-> JsonValue(text)]
    ELSE [kind |-> "throw", error |-> "FormatError"]

TextInputs == {[kind |-> "text", text |-> x] : x \in Texts}

\* A transaction as the callers of generateAndStoreInsights pass it; the
\* currency tag is optional.
InsightTransaction(c) ==
    [date |-> "2023-04-15", description |-> "UBER EATS", amount |-> -25,
     category |-> "Eating Out", currency |-> c]

\* What the fetch of the insights request gives: it rejects, or it resolves
\* to a response with a status and a generated text.
InsightResponses ==
    {[kind |-> "reject", ok |-> FALSE, text |-> <<>>]}
    \cup {[kind |-> "http", ok |-> b, text |-> x] : b \in BOOLEAN, x \in Texts}

InsightThrow(e, n) == [kind |-> "throw", error |-> e, requests |-> n]

\* Mutant: the empty list is noticed only after the request was made.
GenerateSpendingInsightsCheckLast(txs, response) ==
    IF response.kind = "reject" THEN InsightThrow("NetworkError", 1)
    ELSE IF ~response.ok THEN InsightThrow("GeminiApiError", 1)
    ELSE IF txs = Absent \/ Len(txs[1]) = 0
    THEN InsightThrow("NoTransactionData", 1)
    ELSE IF ParseInsights(response.text).kind = "throw"
    THEN InsightThrow(ParseInsights(response.text).error, 1)
    ELSE [kind |-> "value", error |-> "none", requests |-> 1]

\* generateSpendingInsights(transactions): what it returns or throws, and
\* how many requests it has made to the inference service.
GenerateSpendingInsights(txs, response) ==
    IF txs = Absent \/ Len(txs[1]) = 0
    THEN InsightThrow("NoTransactionData", 0)
    ELSE IF response.kind = "reject" THEN InsightThrow("NetworkError", 1)
    ELSE IF ~response.ok THEN InsightThrow("GeminiApiError", 1)
    ELSE IF ParseInsights(response.text).kind = "throw"
    THEN InsightThrow(ParseInsights(response.text).error, 1)
    ELSE [kind |-> "value", error |-> "none", requests |-> 1]

\* const currency = tx.currency || "USD"
TagOf(tx) ==
    IF tx.currency = Absent \/ tx.currency = Some("") THEN "USD"
    ELSE tx.currency[1]

\* currencyCounts[currency]
CountOf(txs, c) == Cardinality({i \in 1..Len(txs) : TagOf(txs[i]) = c})

\* Object.entries(currencyCounts): the tags in the order of their first
\* occurrence.
RECURSIVE KeysOf(_)
KeysOf(txs) ==
    IF Len(txs) = 0 THEN <<>>
    ELSE LET front == KeysOf(SubSeq(txs, 1, Len(txs) - 1))
             tag == TagOf(txs[Len(txs)])
         IN  IF \E i \in 1..Len(front) : front[i] = tag
             THEN front
             ELSE Append(front, tag)

\* Mutant: a later tag with an equal count replaces the earlier one.
RECURSIVE LastMaximum(_, _, _, _, _)
LastMaximum(txs, keys, i, primaryCurrency, maxCount) ==
    IF i > Len(keys) THEN primaryCurrency
    ELSE IF CountOf(txs, keys[i]) >= maxCount
    THEN LastMaximum(txs, keys, i + 1, keys[i], CountOf(txs, keys[i]))
    ELSE LastMaximum(txs, keys, i + 1, primaryCurrency, maxCount)

\* The forEach over the entries: if (count > maxCount) { maxCount = count;
\* primaryCurrency = currency }
RECURSIVE FirstMaximum(_, _, _, _, _)
FirstMaximum(txs, keys, i, primaryCurrency, maxCount) ==
    IF i > Len(keys) THEN primaryCurrency
    ELSE IF CountOf(txs, keys[i]) > maxCount
    THEN FirstMaximum(txs, keys, i + 1, keys[i], CountOf(txs, keys[i]))
    ELSE FirstMaximum(txs, keys, i + 1, primaryCurrency, maxCount)

\* let primaryCurrency = "USD"; let maxCount = 0; then the loop.
PrimaryCurrency(txs) == FirstMaximum(txs, KeysOf(txs), 1, "USD", 0)

CurrencyTags == {Absent, Some(""), Some("USD"), Some("JPY"), Some("EUR")}

TaggedLists ==
    UNION {{[i \in 1..n |-> InsightTransaction(f[i])] : f \in [1..n -> CurrencyTags]} :
             n \in 0..MaxList}

InsightInputs ==
    {[kind |-> "insights", transactions |-> ts, response |-> r] :
        ts \in {Absent, Some(<<>>), Some(<<InsightTransaction(Absent)>>)},
        r \in InsightResponses}

PrimaryInputs == {[kind |-> "primary", transactions |-> ts] : ts \in TaggedLists}

ApplyGenerateSpendingInsights ==
    /\ pureIn.kind = "insights"
    /\ pureOut = NoPure
    /\ pureOut' = [kind |-> "insights",
                   out |-> GenerateSpendingInsights(pureIn.transactions,
                                                    pureIn.response)]
    /\ UNCHANGED <<storage, statements, transactions, uploadVars, deleteVars,
                   insightVars, viewVars, pureIn>>

ApplyPrimaryCurrency ==
    /\ pureIn.kind = "primary"
    /\ pureOut = NoPure
    /\ pureOut' = [kind |-> "primary",
                   currency |-> PrimaryCurrency(pureIn.transactions)]
    /\ UNCHANGED <<storage, statements, transactions, uploadVars, deleteVars,
                   insightVars, viewVars, pureIn>>

ApplyParseExtraction ==
    /\ pureIn.kind = "text"
    /\ pureOut = NoPure
    /\ pureOut' = [kind |-> "text", parsed |-> ParseExtraction(pureIn.text)]
    /\ UNCHANGED <<storage, statements, transactions, uploadVars, deleteVars,
                   insightVars, viewVars, pureIn>>

NameChunks ==
    {"statement", ".pdf", "smbc", "mufg-bank"} \cup JapaneseScriptChunks
    \cup JapaneseBankChunks

Names == UNION {[1..n -> NameChunks] : n \in 0..MaxNameLen}

\* summary?.currency: absent, the empty string, or a code.
SummaryCurrencies == {Absent, Some(""), Some("EUR"), Some("JPY"), Some("USD")}

Amounts == (0 - MaxAmount)..MaxAmount

RawCategories == {Absent, Some(""), Some("Eating Out")}

RawBalances == {Absent} \cup {Some(b) : b \in Amounts}

RawTransactions ==
    {[date |-> "2023-04-15", description |-> "UBER EATS", amount |-> a,
      category |-> c, balance |-> b] :
        a \in Amounts, c \in RawCategories, b \in RawBalances}

CurrencyInputs ==
    {[kind |-> "currency", name |-> n,
      summary |-> [currency |-> c, totalBillAmount |-> Absent]] :
        n \in Names, c \in SummaryCurrencies}

FormatInputs ==
    {[kind |-> "transaction", raw |-> t, currency |-> c] :
        t \in RawTransactions, c \in {"USD", "JPY"}}

InitInputs ==
    /\ InitStore
    /\ InitUpload
    /\ InitDelete
    /\ InitInsights
    /\ InitViewer
    /\ pureIn \in CurrencyInputs \cup FormatInputs \cup TextInputs
                  \cup InsightInputs \cup PrimaryInputs
    /\ pureOut = NoPure

ApplyDetectCurrency ==
    /\ pureIn.kind = "currency"
    /\ pureOut = NoPure
    /\ pureOut' = [kind |-> "currency",
                   currency |-> DetectCurrency(pureIn.summary, pureIn.name)]
    /\ UNCHANGED <<storage, statements, transactions, uploadVars, deleteVars,
                   insightVars, viewVars, pureIn>>

ApplyFormatTransaction ==
    /\ pureIn.kind = "transaction"
    /\ pureOut = NoPure
    /\ pureOut' = [kind |-> "transaction",
                   row |-> FormatTransaction(pureIn.raw, 1, "u1", pureIn.currency)]
    /\ UNCHANGED <<storage, statements, transactions, uploadVars, deleteVars,
                   insightVars, viewVars, pureIn>>

NextPure ==
    \/ ApplyDetectCurrency
    \/ ApplyFormatTransaction
    \/ ApplyParseExtraction
    \/ ApplyGenerateSpendingInsights
    \/ ApplyPrimaryCurrency

SpecPure == InitInputs /\ [][NextPure]_vars

\* C13: the inferred currency is 'JPY' whenever the file name contains a
\* Japanese-script character or one of the known Japanese-bank substrings,
\* whatever the summary's currency; otherwise it is the summary's currency
\* when the summary supplies one, and 'USD' when it does not.
C13_InferCurrency ==
    pureOut.kind = "currency" =>
        LET name == pureIn.name
            cur == pureIn.summary.currency
            japanese == \E i \in 1..Len(name) :
                           name[i] \in JapaneseScriptChunks \cup JapaneseBankChunks
        IN  /\ japanese => pureOut.currency = "JPY"
            /\ (~japanese /\ cur \notin {Absent, Some("")})
                   => pureOut.currency = cur[1]
            /\ (~japanese /\ cur \in {Absent, Some("")})
                   => pureOut.currency = "USD"

\* The override has been applied against a summary that names another currency.
C13_Witness ==
    /\ pureOut.kind = "currency"
    /\ pureOut.currency = "JPY"
    /\ pureIn.summary.currency = Some("EUR")
    /\ Len(pureIn.name) = MaxNameLen

\* C14: a stored transaction has type 'debit' exactly when its amount is
\* less than 0 and type 'credit' exactly when its amount is at least 0,
\* whatever the currency.
C14_TypeFollowsSign ==
    pureOut.kind = "transaction" =>
        /\ pureOut.row.amount = pureIn.raw.amount
        /\ pureOut.row.type \in {"debit", "credit"}
        /\ pureOut.row.type = "debit" <=> pureIn.raw.amount < 0
        /\ pureOut.row.type = "credit" <=> pureIn.raw.amount >= 0

\* An amount of zero has been mapped.
C14_Witness ==
    /\ pureOut.kind = "transaction"
    /\ pureIn.raw.amount = 0
    /\ pureOut.row.type = "credit"

\* C15: the stored category and the stored running balance equal the raw
\* values whenever the raw transaction carries them (a running balance of 0
\* included), and are null only when the raw value is absent.
C15_CategoryAndBalancePassThrough ==
    pureOut.kind = "transaction" =>
        /\ pureOut.row.category = pureIn.raw.category
        /\ pureOut.row.balance = pureIn.raw.balance

----------------------------------------------------------------------------
(* Currency of a statement and of its transactions *)

\* C16: every stored transaction that has a currency has the currency of
\* its owning statement row, also when the write of the inferred currency
\* to the statement row fails while the transaction insert succeeds.
C16_TransactionCurrencyIsStatementCurrency ==
    \A i \in 1..Len(transactions) :
        transactions[i].currency # Absent =>
            statements[transactions[i].statement_id].currency
                = transactions[i].currency

----------------------------------------------------------------------------
(* The insights cache: getCachedInsights, storeInsights,
   generateAndStoreInsights *)

RowsOfUser(u) == SelectSeq(insights, LAMBDA r : r.user_id = u)

\* Mutant: a row that expires now is still valid.
ValidAtOrAfter(row, now) == row.expires_at >= now

\* .gt("expires_at", now)
ValidAt(row, now) == row.expires_at > now

\* .eq("user_id", userId).gt("expires_at", now)
ValidRows(u, now) ==
    {i \in 1..Len(insights) : insights[i].user_id = u /\ ValidAt(insights[i], now)}

\* .order("generated_at", { ascending: false }).limit(1): a row that no
\* selected row is newer than.
NewestOf(rows) ==
    {i \in rows : \A j \in rows : insights[j].generated_at <= insights[i].generated_at}

InsightFailure(e) == [data |-> Absent, error |-> Some(e), returned |-> TRUE]

InsightSuccess(payload) == [data |-> Some(payload), error |-> Absent, returned |-> TRUE]

\* insightsWithCurrency = { ...insights, currency: primaryCurrency }
Payload(g) == [by |-> g, currency |-> gCurrency[g]]

InsightRecord(g, c, outcome) == [gLog EXCEPT ![g][c] = outcome]

\* Time passes: by a millisecond, or by the validity window.
Tick ==
    /\ ticks < MaxTicks
    /\ \E dt \in {1, ValidityMs} : clock' = clock + dt
    /\ ticks' = ticks + 1
    /\ UNCHANGED <<storage, statements, transactions, uploadVars, deleteVars, pureVars,
                   viewVars>>
    /\ UNCHANGED <<insights, gpc, gArgs, gTimes, gCurrency, gResult, gLog, lastRead>>

\* getCachedInsights(u): the query and the return. One call is followed, made
\* at any moment of a behaviour.
GetCachedInsights ==
    \E u \in Users, o \in DbOutcomes :
        /\ lastRead = NoRead
        /\ IF o = "error"
           THEN lastRead' = [userId |-> u, now |-> clock, query |-> o,
                             data |-> Absent, error |-> Some("PostgrestError")]
           ELSE IF ValidRows(u, clock) = {}
           THEN lastRead' = [userId |-> u, now |-> clock, query |-> o,
                             data |-> Absent, error |-> Absent]
           ELSE \E i \in NewestOf(ValidRows(u, clock)) :
                    lastRead' = [userId |-> u, now |-> clock, query |-> o,
                                 data |-> Some(insights[i]), error |-> Absent]
        /\ UNCHANGED <<storage, statements, transactions, uploadVars, deleteVars, pureVars,
                   viewVars>>
        /\ UNCHANGED <<insights, clock, ticks, gpc, gArgs, gTimes, gCurrency, gResult,
                       gLog>>

\* The lists the callers pass: the UI handlers simplify the stored
\* transactions to date, description, amount and category.
CallerLists == {<<>>, <<InsightTransaction(Absent)>>}

\* The responses of the inference service: a non-success status, no text, a
\* text without a JSON object, a JSON object.
CallerResponses ==
    {[kind |-> "http", ok |-> FALSE, text |-> <<>>],
     [kind |-> "http", ok |-> TRUE, text |-> <<>>],
     [kind |-> "http", ok |-> TRUE, text |-> <<"prose">>],
     [kind |-> "http", ok |-> TRUE, text |-> <<"{", "}">>]}

\* Mutant: a throw of generateSpendingInsights does not end the call.
GenerationFailureIgnored(out) == FALSE

\* generateSpendingInsights threw: control goes to the catch block.
GenerationFailed(out) == out.kind = "throw"

\* generateAndStoreInsights(u, txs) of control g, up to the first await of
\* storeInsights: the primary currency is counted, generateSpendingInsights
\* answers or throws; then expiresAt is read and the delete is issued.
StartGenerate(g, u, txs, response) ==
    LET out == GenerateSpendingInsights(Some(txs), response)
    IN  /\ gArgs' = [gArgs EXCEPT ![g] = u]
        /\ gCurrency' = [gCurrency EXCEPT ![g] = PrimaryCurrency(txs)]
        /\ gLog' = InsightRecord(g, "generate", out.kind)
        /\ IF GenerationFailed(out)
           THEN /\ gpc' = [gpc EXCEPT ![g] = "returned"]
                /\ gResult' = [gResult EXCEPT ![g] = InsightFailure(out.error)]
                /\ gTimes' = [gTimes EXCEPT ![g] = NoTimes]
           ELSE /\ gpc' = [gpc EXCEPT ![g] = "delete"]
                /\ gResult' = [gResult EXCEPT ![g] = NoInsightResult]
                /\ gTimes' = [gTimes EXCEPT ![g] =
                                [expiresAt |-> clock + ValidityMs, generatedAt |-> 0]]

\* A call of generateAndStoreInsights by any caller.
GenerateInsights(g) ==
    /\ gpc[g] = "start"
    /\ \E u \in Users, txs \in CallerLists, r \in CallerResponses :
           StartGenerate(g, u, txs, r)
    /\ UNCHANGED <<storage, statements, transactions, uploadVars, deleteVars, pureVars,
                   viewVars>>
    /\ UNCHANGED <<insights, clock, ticks, lastRead>>

\* storeInsights after the delete: its result is not read; generated_at is
\* read and the insert is issued.
DeleteOldInsights(g) ==
    /\ gpc[g] = "delete"
    /\ \E o \in DbOutcomes :
        /\ gLog' = InsightRecord(g, "delete", o)
        /\ insights' = IF o = "ok"
                       THEN SelectSeq(insights, LAMBDA r : r.user_id # gArgs[g])
                       ELSE insights
    /\ gTimes' = [gTimes EXCEPT ![g].generatedAt = clock]
    /\ gpc' = [gpc EXCEPT ![g] = "insert"]
    /\ UNCHANGED <<storage, statements, transactions, uploadVars, deleteVars, pureVars,
                   viewVars>>
    /\ UNCHANGED <<clock, ticks, gArgs, gCurrency, gResult, lastRead>>

\* storeInsights after the insert, and the return of generateAndStoreInsights.
InsertInsights(g) ==
    /\ gpc[g] = "insert"
    /\ \E o \in DbOutcomes :
        /\ gLog' = InsightRecord(g, "insert", o)
        /\ IF o = "ok"
           THEN /\ insights' = Append(insights,
                     [user_id |-> gArgs[g], insights_data |-> Payload(g),
                      generated_at |-> gTimes[g].generatedAt,
                      expires_at |-> gTimes[g].expiresAt])
                /\ gResult' = [gResult EXCEPT ![g] = InsightSuccess(Payload(g))]
           ELSE /\ insights' = insights
                /\ gResult' = [gResult EXCEPT ![g] = InsightFailure("PostgrestError")]
    /\ gpc' = [gpc EXCEPT ![g] = "returned"]
    /\ UNCHANGED <<storage, statements, transactions, uploadVars, deleteVars, pureVars,
                   viewVars>>
    /\ UNCHANGED <<clock, ticks, gArgs, gTimes, gCurrency, lastRead>>

InsightStep(g) ==
    \/ GenerateInsights(g)
    \/ DeleteOldInsights(g)
    \/ InsertInsights(g)

NextInsights ==
    \/ Tick
    \/ GetCachedInsights
    \/ \E g \in InsightCalls : InsightStep(g)

SpecInsights == Init /\ [][NextInsights]_vars

----------------------------------------------------------------------------
(* Properties of the insights cache *)

\* C17: a getCachedInsights(userId) whose query is answered returns, without
\* error, the row of that user with the greatest generated_at among the rows
\* whose expires_at is strictly later than the current time, and data=null
\* with error=null when the user has no row or only expired rows.
C17_NewestUnexpiredRowOrNothing ==
    [][(lastRead' # lastRead /\ lastRead'.query = "ok") =>
          LET u == lastRead'.userId
              now == lastRead'.now
              live == {i \in 1..Len(insights) :
                         /\ insights[i].user_id = u
                         /\ insights[i].expires_at > now}
          IN  /\ now = clock
              /\ lastRead'.error = Absent
              /\ live = {} => lastRead'.data = Absent
              /\ live # {} =>
                    \E i \in live :
                        /\ lastRead'.data = Some(insights[i])
                        /\ \A j \in live :
                              insights[j].generated_at <= insights[i].generated_at]_vars

\* The user's only row expires at the very time of the read, and the read
\* has returned no data and no error.
C17_Witness ==
    /\ lastRead.query = "ok"
    /\ lastRead.data = Absent
    /\ lastRead.error = Absent
    /\ Len(RowsOfUser(lastRead.userId)) = 1
    /\ RowsOfUser(lastRead.userId)[1].expires_at = lastRead.now

\* C18: when generateAndStoreInsights(userId, ...) returns successfully,
\* exactly one insights row exists for that user, whatever rows existed
\* before and whatever the outcome of the preceding delete call.
C18_OneRowAfterSuccess ==
    [][\A g \in InsightCalls :
         (gpc[g] = "insert" /\ gpc'[g] = "returned" /\ gResult'[g].data # Absent)
         => Len(SelectSeq(insights', LAMBDA r : r.user_id = gArgs[g])) = 1]_vars

\* C19: in every reachable state, under every interleaving of concurrent
\* generateAndStoreInsights calls, at most one insights row exists per user.
C19_AtMostOneRowPerUser ==
    \A u \in Users : Len(RowsOfUser(u)) <= 1

\* C20: every insights row written by storeInsights has
\* expires_at = generated_at + 24 hours exactly.
C20_ExpiryIsGenerationPlusWindow ==
    \A i \in 1..Len(insights) :
        insights[i].expires_at = insights[i].generated_at + ValidityMs

----------------------------------------------------------------------------
(* Properties of the response parsing *)

\* C26: processPdfWithGemini fails with a format error for every response
\* text that contains no "{" and no "}", whatever else the text contains.
C26_NoBracesIsFormatError ==
    (/\ pureOut.kind = "text"
     /\ Len(pureIn.text) > 0
     /\ Positions(pureIn.text, "{") = {}
     /\ Positions(pureIn.text, "}") = {})
    => /\ pureOut.parsed.kind = "throw"
       /\ pureOut.parsed.error = "FormatError"

----------------------------------------------------------------------------
(* Properties of the insights client and of the primary currency *)

\* C22: generateSpendingInsights called with an empty or missing
\* transaction list fails with the no-transaction-data error and makes no
\* request to the inference service.
C22_EmptyListFailsWithoutRequest ==
    (/\ pureOut.kind = "insights"
     /\ pureIn.transactions \in {Absent, Some(<<>>)})
    => /\ pureOut.out.kind = "throw"
       /\ pureOut.out.error = "NoTransactionData"
       /\ pureOut.out.requests = 0

\* The call with a missing list has been made while the service would have
\* answered with a JSON object.
C22_Witness ==
    /\ pureOut.kind = "insights"
    /\ pureIn.transactions = Absent
    /\ pureIn.response.kind = "http"
    /\ pureIn.response.ok
    /\ pureIn.response.text = <<"{", "}">>
    /\ pureOut.out.kind = "throw"

\* C23: the currency attached to the payload is the most frequent currency
\* tag of the list, a transaction without a tag counting as 'USD'; among
\* tags with the highest count the one that occurs first in the list wins;
\* for an empty list it is 'USD'.
C23_PrimaryCurrencyIsFirstMode ==
    pureOut.kind = "primary" =>
        LET txs == pureIn.transactions
            tag(i) == IF txs[i].currency \in {Absent, Some("")} THEN "USD"
                      ELSE txs[i].currency[1]
            count(c) == Cardinality({i \in 1..Len(txs) : tag(i) = c})
            first(c) == CHOOSE i \in 1..Len(txs) :
                            tag(i) = c /\ \A j \in 1..(i - 1) : tag(j) # c
            c0 == pureOut.currency
        IN  IF Len(txs) = 0 THEN c0 = "USD"
            ELSE /\ \E i \in 1..Len(txs) : tag(i) = c0
                 /\ \A i \in 1..Len(txs) :
                       \/ count(tag(i)) < count(c0)
                       \/ count(tag(i)) = count(c0) /\ first(c0) <= first(tag(i))

\* Two tags share the highest count and the earlier one has been chosen.
C23_Witness ==
    /\ pureOut.kind = "primary"
    /\ Len(pureIn.transactions) = 2
    /\ pureIn.transactions[1].currency = Some("JPY")
    /\ pureIn.transactions[2].currency = Absent
    /\ pureOut.currency = "JPY"

----------------------------------------------------------------------------
(* Failure of the insights client *)

\* C21: when the insights client fails (empty transaction list,
\* non-success status, empty response text, no parsable JSON object),
\* generateAndStoreInsights returns data=null with an error and the insights
\* rows are what they were before the call: no delete, no insert.
C21_ClientFailureLeavesCache ==
    [][\A g \in InsightCalls :
         (gpc[g] = "start" /\ gLog'[g]["generate"] = "throw")
         => /\ gpc'[g] = "returned"
            /\ gResult'[g].returned
            /\ gResult'[g].data = Absent
            /\ gResult'[g].error # Absent
            /\ gLog'[g]["delete"] = "none"
            /\ gLog'[g]["insert"] = "none"
            /\ insights' = insights]_vars

\* The client has failed on a text without a JSON object while the user had
\* a cache row, and the row is still there.
C21_Witness ==
    \E g \in InsightCalls :
        /\ gResult[g].returned
        /\ gResult[g].error = Some("FormatError")
        /\ gLog[g]["generate"] = "throw"
        /\ Len(RowsOfUser(gArgs[g])) = 1

----------------------------------------------------------------------------
(* The insights view: its load and its regeneration handlers *)

\* The state a successful uploadPdf(name) of session "s1" leaves when the
\* statement has k lines and every call has succeeded.
InitUploaded(name, k) ==
    /\ file = [s \in Sessions |-> IF s = "s1" THEN name ELSE NoFile]
    /\ statementId = [s \in Sessions |-> IF s = "s1" THEN 1 ELSE 0]
    /\ extractedData =
         [s \in Sessions |->
            IF s = "s1"
            THEN [kind |-> "data",
                  summary |-> [currency |-> Absent, totalBillAmount |-> Absent],
                  transactions |-> [i \in 1..k |-> StatementLine(i)]]
            ELSE NoData]
    /\ pc = [s \in Sessions |-> IF s = "s1" THEN "returned" ELSE "start"]
    /\ failedAt = [s \in Sessions |-> "none"]
    /\ writes =
         [s \in Sessions |->
            [w \in WriteNames |->
               IF s = "s1" /\ w \in {"upload", "insertStatement", "processing",
                                     "currency", "insertTransactions", "processed"}
               THEN "ok" ELSE "none"]]
    /\ result = [s \in Sessions |-> IF s = "s1" THEN Returned("s1") ELSE NoResult]
    /\ storage = {FilePath("s1")}
    /\ statements =
         <<[NewStatement("s1", 1) EXCEPT
              !.processing_status = "processed",
              !.currency = Some(Detected("s1"))]>>
    /\ transactions = Formatted("s1")
    /\ deletedIds = {}
    /\ insights = <<>>
    /\ clock = 0
    /\ ticks = 0

\* Nothing uploaded yet, or one processed statement of user "u1".
InitView ==
    /\ \/ InitStore /\ InitUpload
       \/ \E name \in FileNames, k \in 0..MaxTx : InitUploaded(name, k)
    /\ InitDelete
    /\ InitInsights
    /\ InitPure
    /\ InitViewer

\* getAllUserTransactions(userId): .from("transactions").eq("user_id", userId)
AllUserTransactions(u) == SelectSeq(transactions, LAMBDA r : r.user_id = u)

\* tx.category || "Uncategorized"
CategoryOrDefault(c) ==
    IF c = Absent \/ c = Some("") THEN "Uncategorized" ELSE c[1]

\* simplifiedTransactions: date, description, amount, category; the stored
\* currency is not copied.
Simplified(rows) ==
    [i \in 1..Len(rows) |->
        [date |-> rows[i].transaction_date,
         description |-> rows[i].description,
         amount |-> rows[i].amount,
         category |-> CategoryOrDefault(rows[i].category),
         currency |-> Absent]]

\* handleGenerateInsights of control g for the signed-in user u: the user's
\* transactions are fetched and, when there are any, simplified and given to
\* generateAndStoreInsights. Without transactions only a toast is shown.
HandleGenerateInsights(g) ==
    /\ gpc[g] = "start"
    /\ \E u \in Users, r \in CallerResponses :
        /\ Len(AllUserTransactions(u)) > 0
        /\ StartGenerate(g, u, Simplified(AllUserTransactions(u)), r)
    /\ UNCHANGED <<storage, statements, transactions, uploadVars, deleteVars, pureVars,
                   viewVars>>
    /\ UNCHANGED <<insights, clock, ticks, lastRead>>

\* Mutant: the view shows the entry's expiry time as its generation time.
ViewOfExpiry(row) ==
    [insights |-> Some(row.insights_data), cachedTime |-> Some(row.expires_at)]

\* setInsights(cachedInsights.insights_data); setCachedTime(cachedInsights.generated_at)
ViewOf(row) ==
    [insights |-> Some(row.insights_data), cachedTime |-> Some(row.generated_at)]

\* fetchData up to its second await: getAllUserTransactions has answered;
\* with transactions, getCachedInsights is called and reads the clock.
LoadTransactions ==
    /\ vpc = "start"
    /\ \E u \in Users, o \in DbOutcomes :
        IF o = "error"
        THEN /\ view' = [NoView EXCEPT !.userId = u, !.transactions = "error",
                                       !.error = Some("PostgrestError")]
             /\ vpc' = "done"
        ELSE IF Len(AllUserTransactions(u)) = 0
        THEN /\ view' = [NoView EXCEPT !.userId = u, !.transactions = "ok"]
             /\ vpc' = "done"
        ELSE /\ view' = [NoView EXCEPT !.userId = u, !.transactions = "ok",
                                       !.now = clock]
             /\ vpc' = "cache"
    /\ UNCHANGED <<storage, statements, transactions, uploadVars, deleteVars,
                   insightVars, pureVars>>

\* fetchData after getCachedInsights: the entry is shown, or nothing is.
LoadCache ==
    /\ vpc = "cache"
    /\ \E o \in DbOutcomes :
        IF o = "error" \/ ValidRows(view.userId, view.now) = {}
        THEN view' = [view EXCEPT !.cache = o]
        ELSE \E i \in NewestOf(ValidRows(view.userId, view.now)) :
                view' = [view EXCEPT !.cache = o,
                                     !.insights = ViewOf(insights[i]).insights,
                                     !.cachedTime = ViewOf(insights[i]).cachedTime]
    /\ vpc' = "done"
    /\ UNCHANGED <<storage, statements, transactions, uploadVars, deleteVars,
                   insightVars, pureVars>>

\* The page-level button and the component's button.
ViewStep(g) ==
    \/ HandleGenerateInsights(g)
    \/ DeleteOldInsights(g)
    \/ InsertInsights(g)

\* The two buttons of the insights page, pressed in any order.
NextTriggers == \E g \in InsightCalls : ViewStep(g)

SpecTriggers == InitView /\ [][NextTriggers]_vars

\* The load of the view, the clock, and regenerations by the page-level button.
NextView ==
    \/ Tick
    \/ LoadTransactions
    \/ LoadCache
    \/ ViewStep("g1")

SpecView == InitView /\ [][NextView]_vars

-----------------------------------------------------------------------------
(* The currency of a payload generated from the UI *)

\* C24: an entry generated from the UI for a user carries, as its payload
\* currency, a most frequent currency among that user's stored transactions
\* (JPY when all of them are JPY).
C24_PayloadCurrencyIsStoredMode ==
    \A i \in 1..Len(insights) :
        LET rows == AllUserTransactions(insights[i].user_id)
            n(c) == Cardinality({k \in 1..Len(rows) : rows[k].currency = Some(c)})
        IN  Len(rows) > 0 =>
              \A k \in 1..Len(rows) :
                  n(rows[k].currency[1]) <= n(insights[i].insights_data.currency)

-----------------------------------------------------------------------------
(* The columns of the queries of uploadPdf and processPdf *)

\* The columns each write of uploadPdf and processPdf filters on (.eq) or
\* stamps its rows with (.insert); the two storage calls address an object by
\* its path, which contains the user's id.
QueryColumns(w) ==
    CASE w = "upload"             -> {"path"}
      [] w = "insertStatement"    -> {"user_id", "file_name", "storage_path",
                                      "uploaded_at", "processing_status"}
      [] w = "remove"             -> {"path"}
      [] w = "processing"         -> {"id"}
      [] w = "currency"           -> {"id"}
      [] w = "bill"               -> {"id"}
      [] w = "insertTransactions" -> {"statement_id", "user_id", "transaction_date",
                                      "description", "amount", "type", "category",
                                      "balance", "currency"}
      [] w = "processed"          -> {"id"}
      [] w = "error"              -> {"id"}

\* The writes that go to a table (the others go to the storage bucket).
TableWrites == WriteNames \ {"upload", "remove"}

\* C25: every query the upload pipeline has issued on a statements or
\* transactions row names the acting user's id, the status, currency and
\* metadata updates of processPdf included.
C25_EveryQueryNamesTheUser ==
    \A s \in Sessions, w \in TableWrites :
        writes[s][w] # "none" => "user_id" \in QueryColumns(w)

-----------------------------------------------------------------------------
(* The total bill amount of a card statement *)

\* C27: once a run has issued the insert of its transactions, its statement's
\* metadata holds the summary's total bill amount exactly when the summary
\* carries one, whatever the statement's currency (a failed metadata write
\* aside), and the rows inserted for the statement are as many as the raw
\* transactions.
C27_BillStoredWhateverTheCurrency ==
    \A s \in Sessions :
        (writes[s]["insertTransactions"] # "none" /\ writes[s]["bill"] # "error") =>
            LET summary == extractedData[s].summary
                row == statements[statementId[s]]
                rows == SelectSeq(transactions,
                                  LAMBDA r : r.statement_id = statementId[s])
            IN  /\ (summary.totalBillAmount \notin {Absent, Some(0)})
                      <=> (row.metadata # Absent)
                /\ row.metadata # Absent =>
                      row.metadata[1].total_bill_amount = summary.totalBillAmount[1]
                /\ writes[s]["insertTransactions"] = "ok" =>
                      Len(rows) = Len(extractedData[s].transactions)

-----------------------------------------------------------------------------
(* Regenerations in flight *)

\* C28: no two generateAndStoreInsights calls for the same user are running
\* at once: a control pressed while the other control's call has not returned
\* starts no second generation.
C28_OneRegenerationPerUser ==
    \A g, h \in InsightCalls :
        (g # h /\ gArgs[g] = gArgs[h]) =>
            ~ (gpc[g] \in {"delete", "insert"} /\ gpc[h] \in {"delete", "insert"})

-----------------------------------------------------------------------------
(* Transactions of a deleted statement *)

-----------------------------------------------------------------------------
(* Loading the insights view *)

\* C30: a step of the load of the insights view starts no generation and
\* writes no cache entry. When the load ends with both queries answered, the
\* user having a transaction and an entry not expired at the time of the
\* query, the view shows the payload and the generated_at of the newest such
\* entry; in every other case it shows no insights.
C30_LoadShowsCacheAndGeneratesNothing ==
    [][vpc' # vpc =>
         /\ gpc' = gpc /\ gLog' = gLog /\ insights' = insights
         /\ vpc' = "done" =>
              LET u == view'.userId
                  alive == {i \in 1..Len(insights) :
                              /\ insights[i].user_id = u
                              /\ insights[i].expires_at > view'.now}
                  newest == {i \in alive :
                               \A j \in alive :
                                   insights[j].generated_at <= insights[i].generated_at}
              IN  IF /\ view'.transactions = "ok"
                     /\ Len(AllUserTransactions(u)) > 0
                     /\ view'.cache = "ok"
                     /\ alive # {}
                  THEN \E i \in newest :
                          /\ view'.insights = Some(insights[i].insights_data)
                          /\ view'.cachedTime = Some(insights[i].generated_at)
                  ELSE /\ view'.insights = Absent
                       /\ view'.cachedTime = Absent]_vars

\* The view has loaded and shows a cached entry.
C30_Witness ==
    /\ vpc = "done"
    /\ view.insights # Absent
    /\ view.cachedTime # Absent

====
